---- MODULE Spec2Model ----
(***************************************************************************)
(* Model of lookup_benchmark.cc: the workload evaluator at the end of      *)
(* main() and the batch builders of BM_PositiveDistinctLookup and          *)
(* BM_NegativeLookup.                                                      *)
(*                                                                         *)
(* The value type `long` is scaled from 64 bits to MinLong..MaxLong.  The  *)
(* collaborators that live outside lookup_benchmark.cc (ci::Column,        *)
(* ci::Bitmap64, ci::IndexStructure) are modelled from their contracts.    *)
(***************************************************************************)
EXTENDS Integers, Sequences, FiniteSets, TLC

\* ------------------------------------------------------------------ bounds
\* std::numeric_limits<long>::max(), scaled.
MaxLong == 1
MinLong == -MaxLong - 1
Long == MinLong..MaxLong

\* Number of lines the workload file may hold.
MaxLines == 4
\* Largest number of rows of the column the index is built from.
MaxRows == 7
\* The duration, in nanoseconds, the clock measures for a query: the
\* longest one, for every query.
MaxDuration == 1
\* `for (size_t num_rows_per_stripe : {50000})`, scaled.
num_rows_per_stripe == 2
\* constexpr size_t kLookupBatchSize = 1'000'000, scaled.
kLookupBatchSize == 2
\* Largest number of passes KeepRunningBatch asks for.
MaxPasses == 2
\* std::numeric_limits<std::size_t>::max(), scaled with long.
SizeMax == 2 * MaxLong + 1
\* The calls of one query that are logged: one more than the value type
\* has values.
MaxCalls == SizeMax + 2

\* --------------------------------------------------------------- variables
VARIABLES
  column,      \* the rows of the column under test
  fp,          \* whether the index built from the column has false positives
  num_stripes, \* long num_stripes
  pc,          \* position of the program
  nread,       \* lines of the workload file consumed so far
  line,        \* std::string line, of the iteration in progress
  blkcount, timecount, searchtime,
  startv, endv, value, totalres,
  wrapped,     \* whether value++ overflowed and wrapped around in this loop
  calls,       \* the values passed to GetQualifyingStripes for this query
  sets,        \* the indices passed to totalres.Set in the last pass
  out,         \* what has been written to std::cout by the evaluator
  gcount,      \* query records read since the last header record
  gblk,        \* sum of the block counts of those queries
  gheader,     \* text of the last header record read, or "" when none
  nqueries,    \* query records read since the start
  nclosed,     \* groups holding a query that a header or end of file closed
  bench,       \* the benchmark that runs: "positive", "negative" or "none"
  distinct,    \* std::vector<long> distinct_values of BM_PositiveDistinctLookup
  offset,      \* the last index distinct_values was read at
  values,      \* std::vector<long> values, the batch
  i,           \* the index of the lookup loop
  looked,      \* the values passed to GetQualifyingStripes in this pass
  passes       \* passes of the KeepRunningBatch loop begun so far

\* The state of the benchmarks.
benchVars == <<bench, distinct, offset, values, i, looked, passes>>

\* The state of the workload evaluator.
evalVars == <<nread, line, blkcount, timecount, searchtime, startv, endv,
              totalres, wrapped, calls, sets, out, gcount, gblk, gheader, nqueries, nclosed>>

vars == <<column, fp, num_stripes, pc, nread, line, blkcount, timecount,
          searchtime, startv, endv, value, totalres, wrapped, calls, sets,
          out, gcount, gblk, gheader, nqueries, nclosed,
          bench, distinct, offset, values, i, looked, passes>>

\* The elements of a set of integers in ascending order.
RECURSIVE Ascending(_)
Ascending(S) ==
  IF S = {} THEN <<>>
  ELSE LET m == CHOOSE x \in S : \A y \in S : x <= y
       IN  <<m>> \o Ascending(S \ {m})

\* ------------------------------------------------- ci::Column (contract)
\* Column::kIntNullSentinel: the reserved value that stands for NULL.
kIntNullSentinel == MinLong

Range(f) == {f[x] : x \in DOMAIN f}

\* Column::num_rows()
num_rows(c) == Len(c)

\* Column::Contains(value)
Contains(c, v) == \E r \in DOMAIN c : c[r] = v

RECURSIVE Dedup(_, _)
Dedup(c, seen) ==
  IF c = <<>> THEN <<>>
  ELSE IF Head(c) \in seen THEN Dedup(Tail(c), seen)
  ELSE <<Head(c)>> \o Dedup(Tail(c), seen \cup {Head(c)})

\* Column::distinct_values(): each value of the column once, the sentinel
\* of a column with NULL rows included.
distinct_values(c) == Dedup(c, {})

\* The synthetic table main() generates when no CSV is given: n rows that
\* run through the values of the domain.
GeneratedColumn(n) ==
  [r \in 1..n |-> MinLong + ((r - 1) % Cardinality(Long))]

\* The columns the workload evaluator is run on: an empty one, and one of
\* MaxRows rows.
WorkloadColumns == {GeneratedColumn(n) : n \in {0, MaxRows}}

\* The columns the benchmarks are run on: every set of values of the
\* domain, the sentinel among them, each value in two rows.
BenchColumns == {Ascending(S) \o Ascending(S) : S \in SUBSET Long}

\* ----------------------------------------------- ci::Bitmap64 (contract)
\* Bitmap64(size, fill)
Bitmap64(size, fill) == [j \in 0..(size - 1) |-> fill]

\* Bitmap64::Set(i, v), defined for i < size.
Set(b, j, v) == [b EXCEPT ![j] = v]

TrueBits(b) == {j \in DOMAIN b : b[j]}

\* Bitmap64::TrueBitIndices(): the true slots in ascending order.
TrueBitIndices(b) == Ascending(TrueBits(b))

\* Bitmap64::GetOnesCount()
GetOnesCount(b) == Cardinality(TrueBits(b))

\* ------------------------------------------- ci::IndexStructure (contract)
\* The rows of stripe s; the rows past the last whole stripe belong to none.
StripeRows(c, s) ==
  {r \in DOMAIN c : (r - 1) \div num_rows_per_stripe = s}

\* A stripe the index marks although it does not hold the value.
FalsePositive(f, v, s, n) == f /\ n > 0 /\ s = (v - MinLong) % n

\* IndexStructure::GetQualifyingStripes(value, num_stripes) of the index
\* built from column c: never a false negative, false positives when f.
GetQualifyingStripes(c, f, v, n) ==
  [s \in 0..(n - 1) |->
     (\E r \in StripeRows(c, s) : c[r] = v) \/ FalsePositive(f, v, s, n)]

\* ------------------------------------------------------ the workload file
Num(v) == [k |-> "num", v |-> v]
Comma == [k |-> "comma", v |-> 0]
Word == [k |-> "word", v |-> 0]

\* A line of the file: its text, whether it holds the substring
\* "selectivity", what stands at position 0, and the tokens of substr(6).
Line(text, sel, prefix, rest) ==
  [text |-> text, sel |-> sel, prefix |-> prefix, rest |-> rest]

Headers ==
  { Line("selectivity=low", TRUE, "", <<>>),
    Line("range: 0,0 selectivity", TRUE, "range:", <<Num(0), Comma, Num(0), Word>>),
    Line("point: 0 selectivity", TRUE, "point:", <<Num(0), Word>>) }
RangeLines ==
  { Line("range: S,E", FALSE, "range:", <<Num(s), Comma, Num(e)>>) : s, e \in Long }
PointLines ==
  { Line("point: V", FALSE, "point:", <<Num(v)>>) : v \in Long }
\* Query lines whose integers cannot be parsed: a missing second bound,
\* non-numeric text, a missing number.
MalformedLines ==
  { Line("range: 0", FALSE, "range:", <<Num(0)>>),
    Line("range: abc", FALSE, "range:", <<Word>>),
    Line("point: abc", FALSE, "point:", <<Word>>),
    Line("point:", FALSE, "point:", <<>>) }
\* Lines that are no record: a blank one, and one that holds "range:" but
\* not at position 0.
OtherLines ==
  { Line("", FALSE, "", <<>>),
    Line("# range: 0,1", FALSE, "#", <<Word, Num(0), Comma, Num(1)>>) }
Lines == Headers \cup RangeLines \cup PointLines \cup MalformedLines \cup OtherLines

\* ------------------------------------------------- std::istringstream >>
\* The stream: the tokens left and the failbit.
Stream(toks) == [toks |-> toks, fail |-> FALSE]

\* operator>>(long&): what it stores ("value", "zero" on a failed
\* conversion, "none" when the sentry fails and the target is left as it
\* was), the value, and the stream afterwards.
ExtractLong(st) ==
  IF st.fail THEN [wrote |-> "none", v |-> 0, st |-> st]
  ELSE IF st.toks = <<>>
    THEN [wrote |-> "none", v |-> 0, st |-> [st EXCEPT !.fail = TRUE]]
  ELSE IF Head(st.toks).k # "num"
    THEN [wrote |-> "zero", v |-> 0, st |-> [st EXCEPT !.fail = TRUE]]
  ELSE IF Head(st.toks).v > MaxLong
    THEN [wrote |-> "value", v |-> MaxLong,
          st |-> [toks |-> Tail(st.toks), fail |-> TRUE]]
  ELSE [wrote |-> "value", v |-> Head(st.toks).v,
        st |-> [toks |-> Tail(st.toks), fail |-> FALSE]]

\* operator>>(char&): takes the next character, whatever it is.
ExtractChar(st) ==
  IF st.fail THEN st
  ELSE IF st.toks = <<>> THEN [st EXCEPT !.fail = TRUE]
  ELSE IF Head(st.toks).k = "word" THEN st
  ELSE IF Head(st.toks).k = "num" /\ Head(st.toks).v < 0
    THEN [st EXCEPT !.toks = <<Num(-Head(st.toks).v)>> \o Tail(st.toks)]
  ELSE [st EXCEPT !.toks = Tail(st.toks)]

\* What a long declared without an initializer may hold after an
\* extraction: the value stored, or any value when nothing was stored.
Stored(x) == IF x.wrote = "none" THEN Long ELSE {x.v}

\* iss >> startv >> comma >> endv: the pairs startv and endv may hold.
ParseRange(rest) ==
  LET a == ExtractLong(Stream(rest))
      b == ExtractLong(ExtractChar(a.st))
  IN  {[startv |-> s, endv |-> e] : s \in Stored(a), e \in Stored(b)}

\* endv left as it was.
ParsePoint_NoEnd(rest) ==
  LET a == ExtractLong(Stream(rest))
  IN  {[startv |-> s, endv |-> e] : s \in Stored(a), e \in Long}
\* iss >> startv; endv = startv
ParsePoint(rest) ==
  LET a == ExtractLong(Stream(rest))
  IN  {[startv |-> s, endv |-> s] : s \in Stored(a)}

\* Whether every extraction of the line stored a number.
ParsedRange(rest) ==
  LET a == ExtractLong(Stream(rest))
      b == ExtractLong(ExtractChar(a.st))
  IN  a.wrote = "value" /\ b.wrote = "value" /\ ~b.st.fail
ParsedPoint(rest) ==
  LET a == ExtractLong(Stream(rest))
  IN  a.wrote = "value" /\ ~a.st.fail

\* ------------------------------------------------------------ std::cout
Echo(l) == [kind |-> "line", text |-> l.text, num |-> 0, den |-> 0]
\* "avg blk num is:" << static_cast<double>(blkcount) / searchtime
AvgBlk(b, n) == [kind |-> "blk", text |-> "avg blk num is:", num |-> b, den |-> n]
\* "avg search time is:" << static_cast<double>(timecount) / (1e9 * searchtime)
AvgTime(t, n) == [kind |-> "time", text |-> "avg search time is:", num |-> t, den |-> n]

\* ------------------------------------------------- the workload evaluator
\* line.find("selectivity") != std::string::npos
IsHeader(l) == l.sel
\* The test for "range:" made first: a line that begins "range:" is a
\* range query whatever else it holds.
IsRange_First(l) == l.prefix = "range:"
\* else if (line.find("range:") == 0)
IsRange(l) == ~IsHeader(l) /\ l.prefix = "range:"
\* The last test left out: every line left over is a point query.
IsPoint_Else(l) == ~IsHeader(l) /\ ~IsRange(l)
\* else if (line.find("point:") == 0)
IsPoint(l) == ~IsHeader(l) /\ ~IsRange(l) /\ l.prefix = "point:"

\* The guard left out: every header flushes.
NonEmpty_Always(n) == TRUE
\* if (searchtime != 0)
NonEmpty(n) == n # 0

\* The block count taken from the wrong accumulator.
Report_Swapped(b, t, n) ==
  IF NonEmpty(n) THEN <<AvgBlk(t, n), AvgTime(t, n)>> ELSE <<>>
\* The two report lines of a group, written when it holds a query.
Report(b, t, n) == IF NonEmpty(n) THEN <<AvgBlk(b, n), AvgTime(t, n)>> ELSE <<>>

\* The reset left out.
AfterFlush_NoReset(x, n) == x
\* blkcount = 0, timecount = 0, searchtime = 0, inside the same guard.
AfterFlush(x, n) == IF NonEmpty(n) THEN 0 ELSE x

\* Only the first qualifying stripe is set.
SetAll_First(b, idx) == IF idx = <<>> THEN b ELSE Set(b, Head(idx), TRUE)
\* for (i < tempres.size()) totalres.Set(tempres[i], true)
RECURSIVE SetAll(_, _)
SetAll(b, idx) ==
  IF idx = <<>> THEN b ELSE SetAll(Set(b, Head(idx), TRUE), Tail(idx))

\* value++ : at MaxLong the signed increment overflows. A build that keeps
\* the comparison wraps around, and goes on wrapping (w); a build that runs
\* the trip count it computed without overflow leaves the loop, which the
\* model writes as the value one past MaxLong.
Increment(v, w) ==
  IF v < MaxLong THEN {[value |-> v + 1, wrapped |-> w]}
  ELSE {[value |-> MinLong, wrapped |-> TRUE]}
       \cup (IF w THEN {} ELSE {[value |-> v + 1, wrapped |-> FALSE]})

\* What the scope of one loop iteration holds once the iteration is over.
NoBitmap == Bitmap64(0, FALSE)
NoLine == Line("", FALSE, "", <<>>)

\* The header echoed before the report of the group it closes.
HeaderOutput_EchoFirst(o, l, b, t, n) == o \o <<Echo(l)>> \o Report(b, t, n)
\* What a header line adds to the output: the report of the group it
\* closes, then the header line itself.
HeaderOutput(o, l, b, t, n) == o \o Report(b, t, n) \o <<Echo(l)>>

Init ==
  /\ column \in WorkloadColumns
  /\ fp \in BOOLEAN
  /\ num_stripes = num_rows(column) \div num_rows_per_stripe
  /\ pc = "getline"
  /\ nread = 0
  /\ line = NoLine
  /\ blkcount = 0 /\ timecount = 0 /\ searchtime = 0
  /\ startv = 0 /\ endv = 0 /\ value = 0 /\ totalres = NoBitmap
  /\ wrapped = FALSE /\ calls = <<>> /\ sets = <<>>
  /\ out = <<>>
  /\ gcount = 0 /\ gblk = 0 /\ gheader = "" /\ nqueries = 0 /\ nclosed = 0
  /\ bench = "none" /\ distinct = <<>> /\ offset = 0 /\ values = <<>>
  /\ i = 0 /\ looked = <<>> /\ passes = 0

\* getline yields a header line: flush the group if it holds a query, echo.
Header(l) ==
  /\ pc = "getline" /\ nread < MaxLines /\ IsHeader(l)
  /\ nread' = nread + 1
  /\ out' = HeaderOutput(out, l, blkcount, timecount, searchtime)
  /\ blkcount' = AfterFlush(blkcount, searchtime)
  /\ timecount' = AfterFlush(timecount, searchtime)
  /\ searchtime' = AfterFlush(searchtime, searchtime)
  /\ nclosed' = IF gcount > 0 THEN nclosed + 1 ELSE nclosed
  /\ gcount' = 0 /\ gblk' = 0 /\ gheader' = l.text
  /\ UNCHANGED benchVars
  /\ UNCHANGED <<column, fp, num_stripes, pc, line, startv, endv, value,
                 totalres, wrapped, calls, sets, nqueries>>

\* The query is not counted.
StartQuery_NoCount(l, p) ==
  /\ nread' = nread + 1
  /\ line' = l
  /\ startv' = p.startv
  /\ endv' = p.endv
  /\ totalres' = Bitmap64(num_stripes, FALSE)
  /\ value' = p.startv
  /\ calls' = <<>> /\ sets' = <<>>
  /\ pc' = "loop"
  /\ gcount' = gcount + 1
  /\ nqueries' = nqueries + 1
  /\ UNCHANGED benchVars
  /\ UNCHANGED <<column, fp, num_stripes, blkcount, timecount, searchtime,
                 wrapped, out, gblk, gheader, nclosed>>
\* The start of a query: searchtime += 1 and a fresh accumulator.
StartQuery(l, p) ==
  /\ nread' = nread + 1
  /\ line' = l
  /\ startv' = p.startv
  /\ endv' = p.endv
  /\ searchtime' = searchtime + 1
  /\ totalres' = Bitmap64(num_stripes, FALSE)
  /\ value' = p.startv
  /\ calls' = <<>> /\ sets' = <<>>
  /\ pc' = "loop"
  /\ gcount' = gcount + 1
  /\ nqueries' = nqueries + 1
  /\ UNCHANGED benchVars
  /\ UNCHANGED <<column, fp, num_stripes, blkcount, timecount, wrapped, out,
                 gblk, gheader, nclosed>>

\* getline yields a line that begins with "range:".
RangeRecord(l) ==
  /\ pc = "getline" /\ nread < MaxLines /\ IsRange(l)
  /\ \E p \in ParseRange(l.rest) : StartQuery(l, p)

\* getline yields a line that begins with "point:".
PointRecord(l) ==
  /\ pc = "getline" /\ nread < MaxLines /\ IsPoint(l)
  /\ \E p \in ParsePoint(l.rest) : StartQuery(l, p)

\* getline yields any other line: continue.
OtherRecord(l) ==
  /\ pc = "getline" /\ nread < MaxLines
  /\ ~IsHeader(l) /\ ~IsRange(l) /\ ~IsPoint(l)
  /\ nread' = nread + 1
  /\ UNCHANGED benchVars
  /\ UNCHANGED <<column, fp, num_stripes, pc, line, blkcount, timecount, searchtime,
                 startv, endv, value, totalres, wrapped, calls, sets, out,
                 gcount, gblk, gheader, nqueries, nclosed>>

\* The index is asked for one stripe more than the accumulator has.
LoopBody_MoreStripes ==
  /\ pc = "loop" /\ value <= endv
  /\ sets' = TrueBitIndices(GetQualifyingStripes(column, fp, value,
                                                 num_stripes + 1))
  /\ totalres' = SetAll(totalres, sets')
  /\ calls' = IF Len(calls) < MaxCalls THEN Append(calls, value) ELSE calls
  /\ \E x \in Increment(value, wrapped) :
       value' = x.value /\ wrapped' = x.wrapped
  /\ UNCHANGED benchVars
  /\ UNCHANGED <<column, fp, num_stripes, pc, nread, line, blkcount, timecount,
                 searchtime, startv, endv, out, gcount, gblk, gheader,
                 nqueries, nclosed>>
\* One pass of for (value = startv; value <= endv; value++).
LoopBody ==
  /\ pc = "loop" /\ value <= endv
  /\ sets' = TrueBitIndices(GetQualifyingStripes(column, fp, value, num_stripes))
  /\ totalres' = SetAll(totalres, sets')
  /\ calls' = IF Len(calls) < MaxCalls THEN Append(calls, value) ELSE calls
  /\ \E x \in Increment(value, wrapped) :
       value' = x.value /\ wrapped' = x.wrapped
  /\ UNCHANGED benchVars
  /\ UNCHANGED <<column, fp, num_stripes, pc, nread, line, blkcount, timecount,
                 searchtime, startv, endv, out, gcount, gblk, gheader,
                 nqueries, nclosed>>

\* The loop is over: blkcount += totalres.GetOnesCount(), timecount +=
\* searchduration.count(), and the iteration's locals go out of scope.
LoopExit ==
  /\ pc = "loop" /\ ~(value <= endv)
  /\ timecount' = timecount + MaxDuration
  /\ blkcount' = blkcount + GetOnesCount(totalres)
  /\ gblk' = gblk + GetOnesCount(totalres)
  /\ startv' = 0 /\ endv' = 0 /\ value' = 0 /\ totalres' = NoBitmap
  /\ wrapped' = FALSE /\ calls' = <<>> /\ sets' = <<>>
  /\ line' = NoLine
  /\ pc' = "getline"
  /\ UNCHANGED benchVars
  /\ UNCHANGED <<column, fp, num_stripes, nread, searchtime, out, gcount,
                 gheader, nqueries, nclosed>>

\* getline fails: the last group is flushed if it holds a query.
EndOfFile ==
  /\ pc = "getline"
  /\ out' = out \o Report(blkcount, timecount, searchtime)
  /\ blkcount' = AfterFlush(blkcount, searchtime)
  /\ timecount' = AfterFlush(timecount, searchtime)
  /\ searchtime' = AfterFlush(searchtime, searchtime)
  /\ nclosed' = IF gcount > 0 THEN nclosed + 1 ELSE nclosed
  /\ pc' = "done"
  /\ UNCHANGED benchVars
  /\ UNCHANGED <<column, fp, num_stripes, nread, line, startv, endv, value,
                 totalres, wrapped, calls, sets, gcount, gblk, gheader,
                 nqueries>>

Next ==
  \/ \E l \in Lines : Header(l)
  \/ \E l \in Lines : RangeRecord(l)
  \/ \E l \in Lines : PointRecord(l)
  \/ \E l \in Lines : OtherRecord(l)
  \/ LoopBody
  \/ LoopExit
  \/ EndOfFile

Spec == Init /\ [][Next]_vars

\* ---------------------------------------------------------- the benchmarks
\* distinct_values.erase(std::remove(.., kIntNullSentinel), ..)
RemoveNulls(d) == SelectSeq(d, LAMBDA x : x # kIntNullSentinel)

\* The upper bound of distinct_values_offset_d: distinct_values.size() - 1,
\* computed in std::size_t.
UpperOffset(d) == (Len(d) - 1) % (SizeMax + 1)

\* The redraw left out: the first draw is pushed.
Collides_Never(c, v) == FALSE
\* while (column.Contains(value))
Collides(c, v) == Contains(c, v)

InitBench ==
  /\ column \in BenchColumns
  /\ fp = FALSE
  /\ num_stripes = num_rows(column) \div num_rows_per_stripe
  /\ bench \in {"positive", "negative"}
  /\ pc = "start"
  /\ nread = 0
  /\ line = NoLine
  /\ blkcount = 0 /\ timecount = 0 /\ searchtime = 0
  /\ startv = 0 /\ endv = 0 /\ value = 0 /\ totalres = NoBitmap
  /\ wrapped = FALSE /\ calls = <<>> /\ sets = <<>>
  /\ out = <<>>
  /\ gcount = 0 /\ gblk = 0 /\ gheader = "" /\ nqueries = 0 /\ nclosed = 0
  /\ distinct = <<>> /\ offset = 0 /\ values = <<>>
  /\ i = 0 /\ looked = <<>> /\ passes = 0

\* BM_PositiveDistinctLookup: the distinct values without the NULLs, and
\* the distribution over their offsets.
PositiveSetup ==
  /\ bench = "positive" /\ pc = "start"
  /\ distinct' = RemoveNulls(distinct_values(column))
  /\ pc' = "fill"
  /\ UNCHANGED <<column, fp, num_stripes, value, bench, offset, values, i,
                 looked, passes>>
  /\ UNCHANGED evalVars

\* values.push_back(distinct_values[distinct_values_offset_d(gen)]): a read
\* past the end of distinct_values yields any value, or ends the process.
PositiveDraw ==
  /\ bench = "positive" /\ pc = "fill" /\ Len(values) < kLookupBatchSize
  /\ \E o \in 0..UpperOffset(distinct) :
       /\ offset' = o
       /\ \/ /\ o < Len(distinct)
             /\ values' = Append(values, distinct[o + 1])
             /\ pc' = pc
          \/ /\ ~(o < Len(distinct))
             /\ \E g \in Long : values' = Append(values, g)
             /\ pc' = pc
          \/ /\ ~(o < Len(distinct))
             /\ values' = values
             /\ pc' = "crashed"
  /\ UNCHANGED <<column, fp, num_stripes, value, bench, distinct, i, looked,
                 passes>>
  /\ UNCHANGED evalVars

\* BM_NegativeLookup: long value = value_d(gen)
NegativeDraw ==
  /\ bench = "negative" /\ pc \in {"start", "fill"}
  /\ Len(values) < kLookupBatchSize
  /\ value' \in Long
  /\ pc' = "test"
  /\ UNCHANGED <<column, fp, num_stripes, bench, distinct, offset, values, i,
                 looked, passes>>
  /\ UNCHANGED evalVars

\* The redraw yields the value that collided.
NegativeRedraw_Same ==
  /\ bench = "negative" /\ pc = "test" /\ Collides(column, value)
  /\ value' = value
  /\ UNCHANGED <<column, fp, num_stripes, pc, bench, distinct, offset, values, i,
                 looked, passes>>
  /\ UNCHANGED evalVars
\* while (column.Contains(value)) value = value_d(gen)
NegativeRedraw ==
  /\ bench = "negative" /\ pc = "test" /\ Collides(column, value)
  /\ value' \in Long
  /\ UNCHANGED <<column, fp, num_stripes, pc, bench, distinct, offset, values, i,
                 looked, passes>>
  /\ UNCHANGED evalVars

\* values.push_back(value)
NegativePush ==
  /\ bench = "negative" /\ pc = "test" /\ ~Collides(column, value)
  /\ values' = Append(values, value)
  /\ pc' = "fill"
  /\ UNCHANGED <<column, fp, num_stripes, value, bench, distinct, offset, i,
                 looked, passes>>
  /\ UNCHANGED evalVars

\* The batch is full: on to while (state.KeepRunningBatch(values.size())).
BatchBuilt ==
  /\ bench \in {"positive", "negative"} /\ pc = "fill"
  /\ ~(Len(values) < kLookupBatchSize)
  /\ pc' = "keep"
  /\ UNCHANGED <<column, fp, num_stripes, value, bench, distinct, offset, values,
                 i, looked, passes>>
  /\ UNCHANGED evalVars

\* The pass goes on from where the last one stopped.
KeepRunning_NoRestart ==
  /\ pc = "keep" /\ passes < MaxPasses
  /\ passes' = passes + 1
  /\ i' = i
  /\ looked' = <<>>
  /\ pc' = "lookup"
  /\ UNCHANGED <<column, fp, num_stripes, value, bench, distinct, offset, values>>
  /\ UNCHANGED evalVars
\* KeepRunningBatch asks for one more pass over the batch.
KeepRunning ==
  /\ pc = "keep" /\ passes < MaxPasses
  /\ passes' = passes + 1
  /\ i' = 0
  /\ looked' = <<>>
  /\ pc' = "lookup"
  /\ UNCHANGED <<column, fp, num_stripes, value, bench, distinct, offset, values>>
  /\ UNCHANGED evalVars

\* KeepRunningBatch ends the benchmark.
StopRunning ==
  /\ pc = "keep"
  /\ pc' = "finished"
  /\ UNCHANGED <<column, fp, num_stripes, value, bench, distinct, offset, values,
                 i, looked, passes>>
  /\ UNCHANGED evalVars

\* DoNotOptimize(index->GetQualifyingStripes(values[i], num_stripes)); ++i
Lookup ==
  /\ pc = "lookup" /\ i < Len(values)
  /\ looked' = Append(looked, values[i + 1])
  /\ i' = i + 1
  /\ UNCHANGED <<column, fp, num_stripes, pc, value, bench, distinct, offset,
                 values, passes>>
  /\ UNCHANGED evalVars

\* The pass is over.
PassOver ==
  /\ pc = "lookup" /\ ~(i < Len(values))
  /\ pc' = "keep"
  /\ UNCHANGED <<column, fp, num_stripes, value, bench, distinct, offset, values,
                 i, looked, passes>>
  /\ UNCHANGED evalVars

NextBench ==
  \/ PositiveSetup
  \/ PositiveDraw
  \/ NegativeDraw
  \/ NegativeRedraw
  \/ NegativePush
  \/ BatchBuilt
  \/ KeepRunning
  \/ StopRunning
  \/ Lookup
  \/ PassOver

SpecBench == InitBench /\ [][NextBench]_vars

\* The program does not stand still while it has a step to take.
FairSpec == Spec /\ WF_vars(Next)

\* value_d(gen) yields a value that is not in the column.
DrawAbsent == (NegativeDraw \/ NegativeRedraw) /\ ~Contains(column, value')

\* The benchmarks with a generator whose draws are fair: a draw that could
\* yield an absent value again and again yields one in the end.
FairBench ==
  /\ SpecBench
  /\ WF_vars(NextBench)
  /\ SF_vars(DrawAbsent)

\* ------------------------------------------------------------- properties
Last(q) == q[Len(q)]
IsReport(o) == o.kind \in {"blk", "time"}
CountKind(q, kind) == Cardinality({k \in DOMAIN q : q[k].kind = kind})

RECURSIVE SumDen(_)
\* The queries the "avg blk num" lines of q were computed over.
SumDen(q) ==
  IF q = <<>> THEN 0
  ELSE (IF Head(q).kind = "blk" THEN Head(q).den ELSE 0) + SumDen(Tail(q))

\* C1: a header that arrives while searchtime is 0 writes the header line
\* and nothing else, leaves the accumulators alone, and no report line is
\* ever the result of a division by a query count of 0.
C1_EmptyGroupHeader ==
  /\ [](\A k \in DOMAIN out : IsReport(out[k]) => out[k].den # 0)
  /\ [][\A l \in Headers :
          (searchtime = 0 /\ Header(l)) =>
             /\ out' = Append(out, Echo(l))
             /\ blkcount' = blkcount /\ timecount' = timecount
             /\ searchtime' = 0]_vars

\* C1 witness: a header echoed right after another header.
C1_Witness ==
  /\ Len(out) >= 2
  /\ Last(out).kind = "line"
  /\ out[Len(out) - 1].kind = "line"

\* C2: the accumulators hold exactly the queries read since the last
\* header (all three are 0 when there is none), every query
\* record is in the group in progress or in exactly one report, each
\* report is a pair over one query count, and there are as many pairs as
\* groups holding a query that a header or the end of the file has closed.
C2_ReportsPartitionQueries ==
  /\ searchtime = (IF pc = "done" THEN 0 ELSE gcount)
  /\ blkcount = (IF pc = "done" THEN 0 ELSE gblk)
  /\ searchtime = 0 => blkcount = 0 /\ timecount = 0
  /\ SumDen(out) + searchtime = nqueries
  /\ CountKind(out, "blk") = nclosed
  /\ CountKind(out, "time") = nclosed
  /\ \A k \in DOMAIN out :
       out[k].kind = "blk" =>
         /\ k < Len(out)
         /\ out[k + 1].kind = "time"
         /\ out[k + 1].den = out[k].den

\* C2 witness: two headers, each followed by one point query, then the end
\* of the file: two reports, each over one query.
C2_Witness ==
  /\ pc = "done"
  /\ Len(out) = 6
  /\ out[1].kind = "line" /\ out[4].kind = "line"
  /\ out[2].kind = "blk" /\ out[2].den = 1
  /\ out[5].kind = "blk" /\ out[5].den = 1
  /\ nqueries = 2

\* C3: at the end of the file a group that holds a query is flushed once,
\* with the computation of a header's flush, an empty one writes nothing,
\* the evaluator is then done, and every workload gets there.
C3_FinalFlushAndTermination ==
  /\ [][EndOfFile =>
          /\ out' = (IF searchtime > 0
                     THEN out \o <<AvgBlk(blkcount, searchtime),
                                   AvgTime(timecount, searchtime)>>
                     ELSE out)
          /\ pc' = "done"]_vars
  /\ <>(pc = "done")

\* C3, its part that is about the flush alone.
C3_FinalFlush ==
  [][EndOfFile =>
       /\ out' = (IF searchtime > 0
                  THEN out \o <<AvgBlk(blkcount, searchtime),
                                AvgTime(timecount, searchtime)>>
                  ELSE out)
       /\ pc' = "done"]_vars

\* C4 as stated: every line written is a header of the file, and every
\* report pair stands right after the echoed header of its group.
C4_EveryReportAfterItsHeader ==
  \A k \in DOMAIN out :
    /\ out[k].kind = "blk" => k > 1 /\ out[k - 1].kind = "line"
    /\ out[k].kind = "time" => k > 1 /\ out[k - 1].kind = "blk"
    /\ out[k].kind = "line" => \E l \in Headers : out[k] = Echo(l)

\* C4, amended: a report pair stands right after the echoed header of its
\* group, but for the pair of the queries read before the first header,
\* which has no header and opens the output; while a group with a header
\* is in progress its echoed header is the last line written, so its pair
\* comes before the echo of the next header.
C4_OutputShape ==
  /\ \A k \in DOMAIN out :
       /\ out[k].kind = "blk" => k = 1 \/ out[k - 1].kind = "line"
       /\ out[k].kind = "time" => k > 1 /\ out[k - 1].kind = "blk"
       /\ out[k].kind = "line" => \E l \in Headers : out[k] = Echo(l)
  /\ pc # "done" =>
       IF gheader = "" THEN out = <<>>
       ELSE out # <<>> /\ Last(out).kind = "line" /\ Last(out).text = gheader

\* C4 witness: the report of a group without a header, then the report of
\* a group with one.
C4_Witness ==
  /\ Len(out) >= 5
  /\ out[1].kind = "blk"
  /\ out[3].kind = "line"
  /\ out[4].kind = "blk"

\* The stripes that qualify for some value of [s, e].
UnionOfStripes(s, e) ==
  UNION {TrueBits(GetQualifyingStripes(column, fp, v, num_stripes)) : v \in s..e}

\* C5: when the loop over [startv, endv] is over, the true slots of the
\* accumulator are the union of the qualifying stripes of the values of
\* the range, and no pass of the loop lowers its population count.
C5_BitmapUnion ==
  /\ [](pc = "loop" /\ ~(value <= endv) =>
          TrueBits(totalres) = UnionOfStripes(startv, endv))
  /\ [][pc = "loop" /\ pc' = "loop" =>
          GetOnesCount(totalres') >= GetOnesCount(totalres)]_vars

\* C5 witness: a range of three values whose stripes are {0, 1, 2}.
C5_Witness ==
  /\ pc = "loop" /\ ~(value <= endv)
  /\ endv = startv + 2
  /\ TrueBits(totalres) = {0, 1, 2}
  /\ \A v \in startv..endv :
       GetOnesCount(GetQualifyingStripes(column, fp, v, num_stripes)) < 3

\* C6: a flush reports the sum of the block counts of the queries read
\* since the last header over the number of those queries.
C6_FlushAverages ==
  [][Len(out') > Len(out) =>
       \A k \in (Len(out) + 1)..Len(out') :
         out'[k].kind = "blk" =>
           /\ gcount > 0
           /\ out'[k].den = gcount
           /\ out'[k].num = gblk]_vars

\* C6 witness: a report over two queries with a block count above 0.
C6_Witness ==
  \E k \in DOMAIN out :
    out[k].kind = "blk" /\ out[k].den = 2 /\ out[k].num = 3

PointLine(v) == Line("point: V", FALSE, "point:", <<Num(v)>>)
RangeLine(s, e) == Line("range: S,E", FALSE, "range:", <<Num(s), Comma, Num(e)>>)

\* C7: "range: V,V" and "point: V" both evaluate [V, V]: one more query,
\* the accumulator of the stripes of V, and its population count added.
C7_PointIsUnitRange ==
  /\ [](\A v \in Long :
          pc = "loop" /\ line \in {PointLine(v), RangeLine(v, v)} =>
            /\ startv = v /\ endv = v
            /\ ~(value <= endv) =>
                 totalres = GetQualifyingStripes(column, fp, v, num_stripes))
  /\ [][\A v \in Long :
          /\ pc = "getline" /\ pc' = "loop"
               /\ line' \in {PointLine(v), RangeLine(v, v)}
             => searchtime' = searchtime + 1 /\ blkcount' = blkcount
          /\ pc = "loop" /\ pc' = "getline"
               /\ line \in {PointLine(v), RangeLine(v, v)}
             => /\ blkcount' = blkcount + GetOnesCount(
                       GetQualifyingStripes(column, fp, v, num_stripes))
                /\ searchtime' = searchtime]_vars

\* C7 witness: a range of one value evaluated, with a stripe that qualifies.
C7_Witness ==
  /\ pc = "loop" /\ ~(value <= endv)
  /\ \E v \in Long : line = RangeLine(v, v)
  /\ GetOnesCount(totalres) >= 1

\* C8: no query is evaluated, and none counted, for a line whose integers
\* could not be parsed.
C8_UnparsedNotCounted ==
  pc = "loop" =>
    /\ IsRange(line) => ParsedRange(line.rest)
    /\ IsPoint(line) => ParsedPoint(line.rest)

\* C9: every value BM_NegativeLookup pushes, and every value it looks up,
\* is absent from the column, and the batch it has built holds
\* kLookupBatchSize values.
C9_NegativeBatchAbsent ==
  bench = "negative" =>
    /\ \A k \in DOMAIN values : ~Contains(column, values[k])
    /\ pc \in {"keep", "lookup", "finished"} => Len(values) = kLookupBatchSize
    /\ pc = "lookup" /\ i < Len(values) => ~Contains(column, values[i + 1])

\* C9 witness: the batch built over a column that holds values, the last
\* value of the batch about to be looked up.
C9_Witness ==
  /\ bench = "negative" /\ pc = "lookup"
  /\ column # <<>>
  /\ Len(values) = kLookupBatchSize
  /\ i = Len(values) - 1

\* C10: every value BM_PositiveDistinctLookup pushes is a distinct value of
\* the column and not the null sentinel, the batch it has built holds
\* kLookupBatchSize values, and it does build it.
C10_PositiveBatchPresent ==
  bench = "positive" =>
    /\ \A k \in DOMAIN values :
         /\ values[k] \in Range(distinct_values(column))
         /\ values[k] # kIntNullSentinel
    /\ pc \in {"keep", "lookup", "finished"} => Len(values) = kLookupBatchSize
    /\ pc # "crashed"

\* The step that reads line l, whichever branch of the loop body takes it.
Reads(l) == Header(l) \/ RangeRecord(l) \/ PointRecord(l) \/ OtherRecord(l)

\* A line without "selectivity" that begins neither "range:" nor "point:".
IsOther(l) == ~l.sel /\ l.prefix # "range:" /\ l.prefix # "point:"

\* C11: reading a line that is no header and begins neither "range:" nor
\* "point:" leaves blkcount, timecount, searchtime and the output as they
\* were, starts no query (so no lookup is issued), and changes nothing the
\* later headers and reports are computed from: only the position in the
\* file moves.
C11_OtherRecordIgnored ==
  [][\A l \in Lines :
       IsOther(l) /\ Reads(l) =>
         /\ blkcount' = blkcount /\ timecount' = timecount
         /\ searchtime' = searchtime /\ out' = out
         /\ pc' = "getline" /\ nqueries' = nqueries
         /\ UNCHANGED <<column, fp, num_stripes, line, startv, endv, value,
                        totalres, wrapped, calls, sets, gcount, gblk,
                        gheader, nclosed>>]_vars

\* C11 witness: three lines read, a header and a query among them, the
\* remaining one ignored.
C11_Witness ==
  /\ pc = "getline" /\ nread = 3
  /\ CountKind(out, "line") = 1 /\ Len(out) = 1
  /\ nqueries = 1 /\ searchtime = 1

\* C12: no lookup is issued before the batch holds kLookupBatchSize values,
\* a pass looks up values[0], values[1], ... in that order, each once, a
\* pass that is over has looked up the whole batch, and the batch is not
\* modified once it is built.
C12_BatchThenOrderedPasses ==
  /\ [](passes = 0 => looked = <<>>)
  /\ [](passes > 0 \/ looked # <<>> => Len(values) = kLookupBatchSize)
  /\ [](pc = "lookup" => i <= Len(values) /\ looked = SubSeq(values, 1, i))
  /\ [](pc \in {"keep", "finished"} /\ passes > 0 => looked = values)
  /\ [][(pc \in {"keep", "lookup", "finished"}) => UNCHANGED values]_vars

\* C12 witness: the second pass over a batch of different values is over.
C12_Witness ==
  /\ pc = "keep" /\ passes = 2
  /\ looked = values
  /\ Len(values) >= 2 /\ values[1] # values[2]

\* C13: a line that holds "selectivity" is a header wherever the substring
\* stands and whatever the line begins with: reading it writes the report
\* of a group that holds a query, then the line, resets the accumulators
\* and starts no query. A query is started by the lines without
\* "selectivity" that have "range:" or "point:" at position 0, and by no
\* other line.
C13_HeaderTestFirst ==
  [][/\ \A l \in Lines :
         l.sel /\ Reads(l) =>
           /\ out' = (IF searchtime # 0
                      THEN out \o <<AvgBlk(blkcount, searchtime),
                                    AvgTime(timecount, searchtime)>>
                      ELSE out) \o <<Echo(l)>>
           /\ searchtime' = 0 /\ nqueries' = nqueries
           /\ pc' = "getline"
     /\ pc = "getline" /\ pc' = "loop" =>
           /\ ~line'.sel /\ line'.prefix \in {"range:", "point:"}
           /\ searchtime' = searchtime + 1 /\ out' = out]_vars

\* C13 witness: a line that begins "range:" and holds "selectivity" has
\* closed the group of one query and been echoed; no second query began.
C13_Witness ==
  /\ pc = "getline" /\ nread = 2 /\ nqueries = 1 /\ searchtime = 0
  /\ Len(out) = 3
  /\ out[1].kind = "blk"
  /\ out[3] = Echo(Line("range: 0,0 selectivity", TRUE, "range:",
                        <<Num(0), Comma, Num(0), Word>>))

\* The values of [s, e] in ascending order.
Interval(s, e) == [k \in 1..(e - s + 1) |-> s + k - 1]

\* C14: the evaluation of a query over [startv, endv] calls
\* GetQualifyingStripes once for each value of the range, in ascending
\* order, and for no other value: never more than endv - startv + 1 calls,
\* none when startv > endv; and the query counter goes up by one when the
\* query starts and stays while it is evaluated.
C14_OneCallPerValue ==
  /\ [](pc = "loop" =>
          /\ Len(calls) <= Len(Interval(startv, endv))
          /\ calls = SubSeq(Interval(startv, endv), 1, Len(calls))
          /\ ~(value <= endv) => calls = Interval(startv, endv))
  /\ [][(pc = "getline" /\ pc' = "loop") => searchtime' = searchtime + 1]_vars
  /\ [][(pc = "loop") => searchtime' = searchtime]_vars

\* C14, for the ranges that end below the largest value.
C14_BelowMaxLong ==
  /\ [](pc = "loop" /\ endv < MaxLong =>
          /\ calls = SubSeq(Interval(startv, endv), 1, Len(calls))
          /\ ~(value <= endv) => calls = Interval(startv, endv))
  /\ [][(pc = "getline" /\ pc' = "loop") => searchtime' = searchtime + 1]_vars
  /\ [][(pc = "loop") => searchtime' = searchtime]_vars

\* Some value of the domain is not in the column.
HasAbsent == \E v \in Long : ~Contains(column, v)

\* C15: with fair draws, a slot of the batch of BM_NegativeLookup whose
\* value is being drawn is filled whenever some value of the domain is
\* absent from the column, and so the batch is completed; over a column
\* that holds every value of the domain the resample loop of the first
\* slot is never left and the batch stays empty.
C15_ResampleTerminates ==
  /\ \A n \in 0..(kLookupBatchSize - 1) :
       (bench = "negative" /\ pc = "test" /\ Len(values) = n /\ HasAbsent)
         ~> (Len(values) = n + 1)
  /\ (bench = "negative" /\ HasAbsent)
       ~> (Len(values) = kLookupBatchSize /\ pc \in {"keep", "lookup", "finished"})
  /\ [](bench = "negative" /\ ~HasAbsent =>
          /\ values = <<>>
          /\ pc \in {"start", "test"})
  /\ [][(bench = "negative" /\ ~HasAbsent /\ pc = "test") => pc' = "test"]_vars

\* C15 witness: the draw for the last slot has collided, in a column that
\* lacks a value of the domain.
C15_Witness ==
  /\ bench = "negative" /\ pc = "test"
  /\ Contains(column, value) /\ HasAbsent
  /\ Len(values) = kLookupBatchSize - 1

\* C16: the loop over [startv, endv] with startv <= endv comes to an end,
\* for endv = MaxLong too: value never wraps around, it stays within
\* startv..endv + 1, and the evaluator gets back to getline.
C16_RangeLoopTerminates ==
  /\ [](pc = "loop" /\ startv <= endv =>
          ~wrapped /\ value \in startv..(endv + 1))
  /\ (pc = "loop" /\ startv <= endv) ~> (pc = "getline")

\* C17: the largest offset the distribution of BM_PositiveDistinctLookup
\* yields, and every offset distinct_values has been read at, is below
\* distinct_values.size(), whatever the column.
C17_OffsetInBounds ==
  bench = "positive" =>
    /\ pc = "fill" => UpperOffset(distinct) < Len(distinct)
    /\ (values # <<>> \/ pc = "crashed") => offset < Len(distinct)

\* C18: between two records blkcount is at least 0 and at most searchtime
\* times num_stripes, so it is 0 when searchtime is 0, and the block count
\* of every report written is at least 0 and at most num_stripes times
\* the query count of the report.
C18_BlockCountBounds ==
  /\ pc \in {"getline", "done"} =>
       /\ 0 <= blkcount
       /\ blkcount <= searchtime * num_stripes
       /\ searchtime = 0 => blkcount = 0
  /\ \A k \in DOMAIN out :
       out[k].kind = "blk" =>
         /\ out[k].den > 0
         /\ 0 <= out[k].num
         /\ out[k].num <= out[k].den * num_stripes

\* C18 witness: a report whose block count is the largest one two queries
\* can have, and a query of the next group whose block count is below it.
C18_Witness ==
  /\ pc = "getline" /\ num_stripes > 0
  /\ \E k \in DOMAIN out :
       out[k].kind = "blk" /\ out[k].den = 2 /\ out[k].num = 2 * num_stripes
  /\ searchtime = 1 /\ 0 < blkcount /\ blkcount < num_stripes

\* C19: while a query is evaluated the accumulator has the slots
\* 0 .. num_stripes - 1, all of them false before the first lookup,
\* num_stripes is num_rows / num_rows_per_stripe of the column the index
\* was built from, and every index passed to Set is one of the slots; with
\* num_stripes = 0 there is no slot and no Set.
C19_SetWithinBounds ==
  /\ num_stripes = num_rows(column) \div num_rows_per_stripe
  /\ pc = "loop" =>
       /\ DOMAIN totalres = 0..(num_stripes - 1)
       /\ calls = <<>> => TrueBits(totalres) = {}
       /\ \A k \in DOMAIN sets : 0 <= sets[k] /\ sets[k] < num_stripes
       /\ num_stripes = 0 => sets = <<>>

\* C19 witness: the last slot of the accumulator has been set.
C19_Witness ==
  /\ pc = "loop" /\ num_stripes > 0
  /\ sets # <<>> /\ Last(sets) = num_stripes - 1

====
